---- MODULE Spec2Model ----
(***************************************************************************)
(* Model of the upload controller of static/app.js: one submit handler     *)
(* (an async function) that writes to three DOM elements and issues one    *)
(* POST /analyze per file-bearing submission.                              *)
(*                                                                         *)
(* The handler suspends at its two awaits (app.js:30 and app.js:35); the   *)
(* code between two awaits runs to completion on the single event-loop     *)
(* thread, so each such run is one atomic action here.  Several handler    *)
(* invocations can be suspended at once: nothing in the code prevents a    *)
(* second submit while a request is in flight.                             *)
(***************************************************************************)
EXTENDS Integers, Sequences, FiniteSets, TLC

(***************************************************************************)
(* Bounds of the model.                                                    *)
(***************************************************************************)
\* submit events dispatched to the form over one page lifetime
MaxSubmissions == 3

(***************************************************************************)
(* JSON values, as produced by response.json() (app.js:35).  Every value   *)
(* has the same three fields; members is the ordered list of the own       *)
(* properties of an object, empty for the other kinds.                     *)
(***************************************************************************)
JNull == [kind |-> "null", text |-> "", members |-> <<>>]

JString(s) == [kind |-> "string", text |-> s, members |-> <<>>]

\* a number, held as the text ToString(number) gives for it
JNumber(s) == [kind |-> "number", text |-> s, members |-> <<>>]

JObject(ms) == [kind |-> "object", text |-> "", members |-> ms]

\* the value of a property that does not exist
Undefined == [kind |-> "undefined", text |-> "", members |-> <<>>]

Member(k, v) == [key |-> k, val |-> v]

(***************************************************************************)
(* The response bodies the endpoint is modelled to send.  parses = FALSE   *)
(* is a body that is not JSON text (an HTML error page, an empty body).    *)
(***************************************************************************)
Doc(v) == [parses |-> TRUE, value |-> v]

Malformed == [parses |-> FALSE, value |-> Undefined]

\* no body was read: the request itself failed
NoBody == [parses |-> FALSE, value |-> JNull]

DocNull == Doc(JNull)

DocEmptyObject == Doc(JObject(<<>>))

DocError == Doc(JObject(<<Member("error", JString("unsupported format"))>>))

DocEmptyError == Doc(JObject(<<Member("error", JString(""))>>))

DocRegion ==
  Doc(JObject(<<Member("region", JString("coastal-plain")),
                Member("confidence", JNumber("0.82"))>>))

Documents ==
  {DocNull, DocEmptyObject, DocError, DocEmptyError, DocRegion}

Bodies == Documents \cup {Malformed}

\* HTTP status codes of the modelled responses, on both sides of 2xx
Statuses == {200, 299, 404}

(***************************************************************************)
(* JSON.stringify(data, null, 2) (app.js:12), after ECMA-262               *)
(* SerializeJSONProperty / SerializeJSONObject.  The strings of the model  *)
(* hold no character that QuoteJSONString would escape.                    *)
(***************************************************************************)
\* the space argument of JSON.stringify
Space == 2

RECURSIVE Spaces(_)
Spaces(n) == IF n = 0 THEN "" ELSE " " \o Spaces(n - 1)

GapCompact == ""

Gap == Spaces(Space)

QuoteJSONString(s) == "\"" \o s \o "\""

RECURSIVE SerializeJSONProperty(_, _)
RECURSIVE SerializeMembers(_, _, _)
SerializeJSONProperty(v, indent) ==
  CASE v.kind = "null" -> "null"
    [] v.kind = "string" -> QuoteJSONString(v.text)
    [] v.kind = "number" -> v.text
    [] v.kind = "object" ->
         IF v.members = <<>>
         THEN "{}"
         ELSE IF Gap = ""
              THEN "{" \o SerializeMembers(v.members, indent, 1) \o "}"
              ELSE "{\n" \o SerializeMembers(v.members, indent \o Gap, 1)
                         \o "\n" \o indent \o "}"

SerializeMembers(ms, stepback, k) ==
  LET member == (IF Gap = "" THEN "" ELSE stepback)
                  \o QuoteJSONString(ms[k].key)
                  \o (IF Gap = "" THEN ":" ELSE ": ")
                  \o SerializeJSONProperty(ms[k].val, stepback)
      separator == IF Gap = "" THEN "," ELSE ",\n"
  IN IF k < Len(ms)
     THEN member \o separator \o SerializeMembers(ms, stepback, k + 1)
     ELSE member

JSONstringify(data) == SerializeJSONProperty(data, "")

(***************************************************************************)
(* The fixed status messages of the handler.                               *)
(***************************************************************************)
\* app.js:20
MissingFileMessage == "Please choose a PNG or JPEG file to analyze."

\* app.js:26; the source ends the text with U+2026, written here as three dots
AnalyzingMessage == "Analyzing image..."

\* app.js:37
FailedMessage == "The analysis failed."

\* app.js:42
CompleteMessage == "Analysis complete."

\* app.js:46
UnexpectedMessage == "Unexpected error while analyzing the image."

(***************************************************************************)
(* The pieces of JavaScript semantics the handler relies on.               *)
(***************************************************************************)
\* response.ok: the status is in 200..299
ok(status) == status >= 200 /\ status <= 299

\* payload.error throws a TypeError when payload is null
PropertyReadThrows(payload) == payload.kind = "null"

RECURSIVE Lookup(_, _, _)
Lookup(ms, key, k) ==
  IF k = 0 THEN Undefined
  ELSE IF ms[k].key = key THEN ms[k].val ELSE Lookup(ms, key, k - 1)

\* payload.error for a payload that is not null
GetError(payload) == Lookup(payload.members, "error", Len(payload.members))

\* ToBoolean, the left operand test of ||
ToBoolean(v) ==
  CASE v.kind = "undefined" -> FALSE
    [] v.kind = "null" -> FALSE
    [] v.kind = "string" -> v.text # ""
    [] v.kind = "number" -> v.text \notin {"0", "-0", "NaN"}
    [] v.kind = "object" -> TRUE

\* the string textContent gets when assigned the value
ToDisplayString(v) ==
  CASE v.kind = "string" -> v.text
    [] v.kind = "number" -> v.text
    [] v.kind = "object" -> "[object Object]"
    [] OTHER -> ""

\* payload.error || 'The analysis failed.'
ErrorMessage(payload) ==
  IF ToBoolean(GetError(payload))
  THEN ToDisplayString(GetError(payload))
  ELSE FailedMessage

(***************************************************************************)
(* State.                                                                  *)
(*   files          fileInput.files.length (app.js:18-19)                  *)
(*   statusEl       textContent and className of #status (app.js:2)        *)
(*   resultSection  the hidden attribute of #result (app.js:3)             *)
(*   resultPre      textContent of #result-json (app.js:4)                 *)
(*   handlers       the invocations of the submit listener: where each is  *)
(*                  suspended, and the response whose body it is reading   *)
(*   requests       the number of fetch('/analyze') calls made (app.js:30) *)
(*   console        the causes passed to console.error (app.js:45)         *)
(* History, written but never read by the handler:                         *)
(*   events         files.length at each submit event, in dispatch order   *)
(*   last           the handler step that ran last, with the step that     *)
(*                  last wrote the status (wrote) and the body of the      *)
(*                  success that was last rendered (rendered)              *)
(*   handlers[i].alone  no step of another invocation has run since        *)
(*                  invocation i was triggered                             *)
(***************************************************************************)
VARIABLES files, statusEl, resultSection, resultPre, handlers, requests,
          console, events, last

vars == <<files, statusEl, resultSection, resultPre, handlers, requests,
          console, events, last>>

dom == <<statusEl, resultSection, resultPre>>

Ids == 1..MaxSubmissions

NotStarted == [pc |-> "none", status |-> 0, alone |-> FALSE]

Finished == [pc |-> "done", status |-> 0, alone |-> FALSE]

\* the record of a handler step; wrote and rendered carry on from the
\* previous record unless this step writes the status or renders a result
Step(op, id, status, body, alone) ==
  [op |-> op, id |-> id, status |-> status, body |-> body, alone |-> alone,
   wrote |-> IF op = "response" THEN last.wrote ELSE op,
   rendered |-> IF op = "complete" THEN body ELSE last.rendered]

\* a step of invocation j interleaves with every other suspended invocation
Interleave(h, j) ==
  [i \in Ids |->
     IF i # j /\ h[i].pc \in {"fetch", "json"}
     THEN [h[i] EXCEPT !.alone = FALSE]
     ELSE h[i]]

\* what the user sees: the status line and, unless hidden, the result text
Visible ==
  [status |-> statusEl,
   hidden |-> resultSection.hidden,
   result |-> IF resultSection.hidden THEN "" ELSE resultPre.textContent]

(***************************************************************************)
(* setStatus and showResult (app.js:6-14).                                 *)
(***************************************************************************)
setStatusKeepClass(message, isError) ==
  [textContent |-> message, className |-> "status"]

setStatusStickyError(message, isError) ==
  [textContent |-> message,
   className |-> IF isError \/ statusEl.className = "status error"
                 THEN "status error" ELSE "status"]

setStatus(message, isError) ==
  [textContent |-> message,
   className |-> IF isError THEN "status error" ELSE "status"]

showResultTextOnly(data) ==
  /\ resultPre' = [textContent |-> JSONstringify(data)]
  /\ UNCHANGED resultSection

showResultStale(data) ==
  /\ UNCHANGED resultPre
  /\ resultSection' = [hidden |-> FALSE]

showResult(data) ==
  /\ resultPre' = [textContent |-> JSONstringify(data)]
  /\ resultSection' = [hidden |-> FALSE]

(***************************************************************************)
(* The page as loaded: no file chosen, an empty status line, the result    *)
(* section hidden, no submit dispatched yet.  The markup that sets the     *)
(* initial contents of the elements is not part of the sources; the page   *)
(* is taken to load in the Idle state the design describes.                *)
(***************************************************************************)
Init ==
  /\ files = 0
  /\ statusEl = [textContent |-> "", className |-> "status"]
  /\ resultSection = [hidden |-> TRUE]
  /\ resultPre = [textContent |-> ""]
  /\ handlers = [i \in Ids |-> NotStarted]
  /\ requests = 0
  /\ console = <<>>
  /\ events = <<>>
  /\ last = [op |-> "load", id |-> 0, status |-> 0, body |-> NoBody,
             alone |-> FALSE, wrote |-> "load", rendered |-> NoBody]

(***************************************************************************)
(* The user picks a file in, or clears, the file input.  One file at most: *)
(* the handler reads files.length and files[0] only.                       *)
(***************************************************************************)
ChooseFile ==
  /\ files = 0
  /\ files' = 1
  /\ UNCHANGED <<dom, handlers, requests, console, events, last>>

ClearFile ==
  /\ files = 1
  /\ files' = 0
  /\ UNCHANGED <<dom, handlers, requests, console, events, last>>

(***************************************************************************)
(* A submit event: the listener runs from app.js:17 to its return at       *)
(* app.js:21 or to its suspension at the await of app.js:30.               *)
(***************************************************************************)
\* app.js:19-22
MissingFile(id) ==
  /\ statusEl' = setStatus(MissingFileMessage, TRUE)
  /\ handlers' = [Interleave(handlers, id) EXCEPT ![id] = Finished]
  /\ last' = Step("missing-file", id, 0, NoBody, FALSE)
  /\ UNCHANGED <<resultSection, resultPre, requests, console>>

\* app.js:24-33
AnalyzeNoHide(id) ==
  /\ statusEl' = setStatus(AnalyzingMessage, FALSE)
  /\ UNCHANGED resultSection
  /\ requests' = requests + 1
  /\ handlers' = [Interleave(handlers, id) EXCEPT
                    ![id] = [pc |-> "fetch", status |-> 0, alone |-> TRUE]]
  /\ last' = Step("analyzing", id, 0, NoBody, TRUE)
  /\ UNCHANGED <<resultPre, console>>

AnalyzeSilently(id) ==
  /\ UNCHANGED statusEl
  /\ resultSection' = [hidden |-> TRUE]
  /\ requests' = requests + 1
  /\ handlers' = [Interleave(handlers, id) EXCEPT
                    ![id] = [pc |-> "fetch", status |-> 0, alone |-> TRUE]]
  /\ last' = Step("analyzing", id, 0, NoBody, TRUE)
  /\ UNCHANGED <<resultPre, console>>

Analyze(id) ==
  /\ statusEl' = setStatus(AnalyzingMessage, FALSE)
  /\ resultSection' = [hidden |-> TRUE]
  /\ requests' = requests + 1
  /\ handlers' = [Interleave(handlers, id) EXCEPT
                    ![id] = [pc |-> "fetch", status |-> 0, alone |-> TRUE]]
  /\ last' = Step("analyzing", id, 0, NoBody, TRUE)
  /\ UNCHANGED <<resultPre, console>>

SubmitUnlessBusy ==
  /\ Len(events) < MaxSubmissions
  /\ \A i \in Ids : handlers[i].pc \notin {"fetch", "json"}
  /\ events' = Append(events, files)
  /\ UNCHANGED files
  /\ IF files = 0
     THEN MissingFile(Len(events) + 1)
     ELSE Analyze(Len(events) + 1)

Submit ==
  /\ Len(events) < MaxSubmissions
  /\ events' = Append(events, files)
  /\ UNCHANGED files
  /\ IF files = 0
     THEN MissingFile(Len(events) + 1)
     ELSE Analyze(Len(events) + 1)

(***************************************************************************)
(* The catch clause (app.js:44-47).                                        *)
(***************************************************************************)
CatchLogOnly(id, status, body, cause) ==
  /\ console' = Append(console, cause)
  /\ UNCHANGED statusEl
  /\ handlers' = [Interleave(handlers, id) EXCEPT ![id] = Finished]
  /\ last' = Step("caught", id, status, body, handlers[id].alone)
  /\ UNCHANGED <<files, resultSection, resultPre, requests, events>>

Catch(id, status, body, cause) ==
  /\ console' = Append(console, cause)
  /\ statusEl' = setStatus(UnexpectedMessage, TRUE)
  /\ handlers' = [Interleave(handlers, id) EXCEPT ![id] = Finished]
  /\ last' = Step("caught", id, status, body, handlers[id].alone)
  /\ UNCHANGED <<files, resultSection, resultPre, requests, events>>

(***************************************************************************)
(* The promise of fetch settles (app.js:30).  It rejects on a network      *)
(* failure; it fulfils once the status line and headers have arrived, and  *)
(* the handler goes on to response.json(), where it suspends again.        *)
(***************************************************************************)
FetchRejected(id) ==
  /\ handlers[id].pc = "fetch"
  /\ Catch(id, 0, NoBody, "TypeError: Failed to fetch")

FetchFulfilled(id, status) ==
  /\ handlers[id].pc = "fetch"
  /\ handlers' = [Interleave(handlers, id) EXCEPT
                    ![id] = [pc |-> "json", status |-> status,
                             alone |-> handlers[id].alone]]
  /\ last' = Step("response", id, status, NoBody, handlers[id].alone)
  /\ UNCHANGED <<files, dom, requests, console, events>>

(***************************************************************************)
(* The promise of response.json() settles (app.js:35) and the handler runs *)
(* to its end (app.js:36-47).                                              *)
(***************************************************************************)
\* app.js:36-40
RemoteRejectionAndRetry(id, status, payload) ==
  /\ statusEl' = setStatus(ErrorMessage(payload), TRUE)
  /\ requests' = requests + 1
  /\ handlers' = [Interleave(handlers, id) EXCEPT ![id] = Finished]
  /\ last' = Step("rejected", id, status, Doc(payload), handlers[id].alone)
  /\ UNCHANGED <<files, resultSection, resultPre, console, events>>

RemoteRejectionAndClear(id, status, payload) ==
  /\ statusEl' = setStatus(ErrorMessage(payload), TRUE)
  /\ resultPre' = [textContent |-> ""]
  /\ handlers' = [Interleave(handlers, id) EXCEPT ![id] = Finished]
  /\ last' = Step("rejected", id, status, Doc(payload), handlers[id].alone)
  /\ UNCHANGED <<files, resultSection, requests, console, events>>

RemoteRejection(id, status, payload) ==
  /\ statusEl' = setStatus(ErrorMessage(payload), TRUE)
  /\ handlers' = [Interleave(handlers, id) EXCEPT ![id] = Finished]
  /\ last' = Step("rejected", id, status, Doc(payload), handlers[id].alone)
  /\ UNCHANGED <<files, resultSection, resultPre, requests, console, events>>

\* app.js:42-43
Complete(id, status, payload) ==
  /\ statusEl' = setStatus(CompleteMessage, FALSE)
  /\ showResult(payload)
  /\ handlers' = [Interleave(handlers, id) EXCEPT ![id] = Finished]
  /\ last' = Step("complete", id, status, Doc(payload), handlers[id].alone)
  /\ UNCHANGED <<files, requests, console, events>>

JsonSettled(id, body) ==
  /\ handlers[id].pc = "json"
  /\ LET status == handlers[id].status IN
     IF ~body.parses
     THEN Catch(id, status, body, "SyntaxError: Unexpected token")
     ELSE IF ~ok(status)
          THEN IF PropertyReadThrows(body.value)
               THEN Catch(id, status, body,
                          "TypeError: Cannot read properties of null")
               ELSE RemoteRejection(id, status, body.value)
          ELSE Complete(id, status, body.value)

Next ==
  \/ ChooseFile
  \/ ClearFile
  \/ Submit
  \/ \E id \in Ids : FetchRejected(id)
  \/ \E id \in Ids, status \in Statuses : FetchFulfilled(id, status)
  \/ \E id \in Ids, body \in Bodies : JsonSettled(id, body)

Spec == Init /\ [][Next]_vars

(***************************************************************************)
(* Every request completes: the promise of fetch settles and, if it        *)
(* fulfilled, so does the promise of response.json().  The event loop then *)
(* resumes the suspended handler, which is part of the same action here.   *)
(* Nothing in the code makes a request complete; this is the premise under *)
(* which termination of the handler is stated.                             *)
(***************************************************************************)
FetchSettled(id) ==
  \/ FetchRejected(id)
  \/ \E status \in Statuses : FetchFulfilled(id, status)

BodySettled(id) == \E body \in Bodies : JsonSettled(id, body)

RequestsComplete ==
  \A id \in Ids : WF_vars(FetchSettled(id)) /\ WF_vars(BodySettled(id))

FairSpec == Spec /\ RequestsComplete

(***************************************************************************)
(* Vocabulary of the properties.                                           *)
(***************************************************************************)
\* SubmissionState, read off the status line the handler last wrote
SubmissionState ==
  IF statusEl.className = "status error" THEN "Error"
  ELSE IF statusEl.textContent = AnalyzingMessage THEN "Analyzing"
  ELSE IF statusEl.textContent = CompleteMessage THEN "Success"
  ELSE "Idle"

\* the steps that end an invocation which issued a request
Completions == {"caught", "rejected", "complete"}

\* the last step ended an invocation no other invocation interleaved with
CompletedAlone == last.op \in Completions /\ last.alone

Is2xx(status) == status \in 200..299

ErrorStatus(message) == [textContent |-> message, className |-> "status error"]

PlainStatus(message) == [textContent |-> message, className |-> "status"]

\* the text JSON.stringify(value, null, 2) gives for each modelled document
PrettyText(body) ==
  CASE body = DocNull -> "null"
    [] body = DocEmptyObject -> "{}"
    [] body = DocError -> "{\n  \"error\": \"unsupported format\"\n}"
    [] body = DocEmptyError -> "{\n  \"error\": \"\"\n}"
    [] body = DocRegion ->
         "{\n  \"region\": \"coastal-plain\",\n  \"confidence\": 0.82\n}"

\* the submit events so far that carried a file
RECURSIVE FileBearing(_)
FileBearing(evs) ==
  IF evs = <<>> THEN 0 ELSE Head(evs) + FileBearing(Tail(evs))

\* the most recent submit event that carried a file, 0 if none
RECURSIVE LatestWithFile(_)
LatestWithFile(k) ==
  IF k = 0 THEN 0 ELSE IF events[k] = 1 THEN k ELSE LatestWithFile(k - 1)

InFlight == {i \in Ids : handlers[i].pc \in {"fetch", "json"}}

AnalyzingShown ==
  /\ statusEl = PlainStatus(AnalyzingMessage)
  /\ resultSection.hidden

\* what a freshly loaded page shows after one submission with this response
FreshPageOutcome(status, body) ==
  IF ~body.parses
  THEN [status |-> ErrorStatus(UnexpectedMessage), hidden |-> TRUE,
        result |-> ""]
  ELSE IF Is2xx(status)
       THEN [status |-> PlainStatus(CompleteMessage), hidden |-> FALSE,
             result |-> PrettyText(body)]
       ELSE [status |-> ErrorStatus(
                          CASE body = DocError -> "unsupported format"
                            [] body = DocNull -> UnexpectedMessage
                            [] OTHER -> FailedMessage),
             hidden |-> TRUE, result |-> ""]

(***************************************************************************)
(* C1.  The result container is hidden unless the status last written is   *)
(* 'Analysis complete.' (SubmissionState is Success).  Fails: a            *)
(* missing-file submission after a success leaves the result shown.        *)
(***************************************************************************)
C1_HiddenUnlessSuccess ==
  SubmissionState # "Success" => resultSection.hidden

(***************************************************************************)
(* C2.  After a submission with no file selected no request has been       *)
(* issued for it, the status is the guidance message flagged as an error,  *)
(* and the result surface is hidden.  Fails on the last part.              *)
(***************************************************************************)
C2_MissingFileOutcome ==
  last.op = "missing-file" =>
    /\ requests = FileBearing(events)
    /\ statusEl = ErrorStatus(MissingFileMessage)
    /\ resultSection.hidden

(***************************************************************************)
(* C3.  A submission that ran alone and got a 2xx response whose body      *)
(* parses as JSON ends in Success: status 'Analysis complete.' without the *)
(* error flag, the result shown, its text the pretty-printed body.         *)
(***************************************************************************)
C3_SuccessRenders ==
  (CompletedAlone /\ Is2xx(last.status) /\ last.body.parses) =>
    /\ statusEl = PlainStatus(CompleteMessage)
    /\ ~resultSection.hidden
    /\ resultPre.textContent = PrettyText(last.body)

\* a 299 response whose body carries an error field, rendered as a success
C3_Witness ==
  /\ CompletedAlone
  /\ last.status = 299
  /\ last.body = DocError
  /\ resultPre.textContent = PrettyText(DocError)
  /\ ~resultSection.hidden

(***************************************************************************)
(* C4.  A submission that ran alone and got a non-2xx response whose body  *)
(* parses as JSON ends in Error, the status text being the body's error    *)
(* field when it has one (the empty string included) and 'The analysis     *)
(* failed.' when it has none (null included), the result hidden.  Fails    *)
(* for {"error": ""} and for null.                                         *)
(***************************************************************************)
C4_RejectionMessage ==
  (CompletedAlone /\ ~Is2xx(last.status) /\ last.body.parses) =>
    /\ statusEl = ErrorStatus(CASE last.body = DocError -> "unsupported format"
                                [] last.body = DocEmptyError -> ""
                                [] OTHER -> FailedMessage)
    /\ resultSection.hidden

(***************************************************************************)
(* C5.  A submission that ran alone and whose request failed, or whose     *)
(* response body is not JSON (whatever the status), ends in Error with the *)
(* status 'Unexpected error while analyzing the image.' flagged as an      *)
(* error, the result hidden.                                               *)
(***************************************************************************)
C5_UnexpectedError ==
  (CompletedAlone /\ ~last.body.parses) =>
    /\ statusEl = ErrorStatus(UnexpectedMessage)
    /\ resultSection.hidden

\* a 2xx response with a body that is not JSON, after an earlier success
C5_Witness ==
  /\ CompletedAlone
  /\ last.status = 200
  /\ last.body = Malformed
  /\ resultPre.textContent # ""
  /\ console = <<"SyntaxError: Unexpected token">>

(***************************************************************************)
(* C6.  As claimed: every step that ends an invocation in Success or in    *)
(* Error is taken from a state whose SubmissionState is Analyzing.         *)
(***************************************************************************)
C6_AlwaysFromAnalyzing ==
  [][(last' # last /\ last'.op \in Completions) =>
       SubmissionState = "Analyzing"]_vars

\* C6 as amended: it holds of the invocations that no step of another
\* invocation interleaved with.
C6_AloneFromAnalyzing ==
  [][(last' # last /\ last'.op \in Completions /\ last'.alone) =>
       SubmissionState = "Analyzing"]_vars

\* a remote rejection ends the third submission, which ran alone
C6_Witness ==
  /\ last.op = "rejected"
  /\ last.alone
  /\ last.id = 3
  /\ SubmissionState = "Error"

(***************************************************************************)
(* C7.  Once submissions that interleaved with one another have all        *)
(* completed, what the page shows (status text, error flag, visibility of  *)
(* the result and its text) equals what the response that completed last   *)
(* would have produced on its own.  Fails: a later error leaves an earlier *)
(* success's result shown.                                                 *)
(***************************************************************************)
C7_LaterRenderWins ==
  (last.op \in Completions /\ ~last.alone /\ InFlight = {}) =>
    Visible = FreshPageOutcome(last.status, last.body)

(***************************************************************************)
(* C8.  What the page shows when a submission that ran alone completes     *)
(* depends on its response only: it is what a freshly loaded page would    *)
(* show for that response, whatever submissions completed before.          *)
(***************************************************************************)
C8_NoLeakBetweenRuns ==
  CompletedAlone => Visible = FreshPageOutcome(last.status, last.body)

\* the third submission succeeds alone after a transport failure
C8_Witness ==
  /\ last.op = "complete"
  /\ last.alone
  /\ last.id = 3
  /\ console # <<>>
  /\ statusEl = PlainStatus(CompleteMessage)

(***************************************************************************)
(* C9.  As claimed: while the request of the most recent file-bearing      *)
(* submission is pending, the page shows Analyzing.                        *)
(***************************************************************************)
C9_PendingShowsAnalyzing ==
  LET i == LatestWithFile(Len(events)) IN
  (i # 0 /\ handlers[i].pc = "fetch") => AnalyzingShown

\* C9 as amended: it holds while no step of another invocation has run
\* since the submission was triggered.
C9_PendingAloneShowsAnalyzing ==
  \A i \in Ids :
    (handlers[i].pc = "fetch" /\ handlers[i].alone) => AnalyzingShown

\* the second request is pending, alone, after a first success
C9_Witness ==
  /\ handlers[2].pc = "fetch"
  /\ handlers[2].alone
  /\ handlers[1].pc = "done"
  /\ resultPre.textContent # ""

(***************************************************************************)
(* C10.  The number of POST /analyze requests issued equals the number of  *)
(* submit events that carried a file.                                      *)
(***************************************************************************)
C10_OneRequestPerFileSubmission ==
  requests = FileBearing(events)

\* two requests for three submissions, one of which failed remotely
C10_Witness ==
  /\ Len(events) = 3
  /\ requests = 2
  /\ InFlight = {}
  /\ last.op = "rejected"

(***************************************************************************)
(* C11.  Every submission produces a terminal state: the step that ends an *)
(* invocation (the missing-file return, or the continuation that runs once *)
(* the request has completed) leaves Success or Error as the status, never *)
(* 'Analyzing image...'; and when requests complete, every invocation that *)
(* issued one eventually ends.                                             *)
(***************************************************************************)
C11_TerminalState ==
  /\ [][\A i \in Ids :
          (handlers[i].pc # "done" /\ handlers'[i].pc = "done") =>
             /\ SubmissionState' \in {"Success", "Error"}
             /\ last'.wrote \in Completions \cup {"missing-file"}
             /\ last'.id = i
             /\ (handlers[i].pc = "none" => SubmissionState' = "Error")]_vars
  /\ \A i \in Ids :
       (handlers[i].pc \in {"fetch", "json"}) ~> (handlers[i].pc = "done")

\* the second invocation ended in Error on a null body under 404 while the
\* first one is still suspended
C11_Witness ==
  /\ handlers[2].pc = "done"
  /\ handlers[1].pc = "fetch"
  /\ last.id = 2
  /\ last.body = DocNull
  /\ last.status = 404
  /\ SubmissionState = "Error"

(***************************************************************************)
(* C12.  No state is terminal and nothing disables the submit handler: in  *)
(* every reachable state with fewer than MaxSubmissions submit events so   *)
(* far (Idle, Analyzing with requests in flight, Success, Error) a submit  *)
(* is enabled, and a submit with a file selected moves the page to         *)
(* Analyzing with the result hidden and issues one new request.            *)
(***************************************************************************)
C12_SubmitAlwaysEnabled ==
  /\ [](Len(events) < MaxSubmissions => ENABLED Submit)
  /\ [][(events' # events /\ files = 1) =>
          /\ AnalyzingShown'
          /\ requests' = requests + 1
          /\ handlers'[Len(events')].pc = "fetch"]_vars

\* the third submit was taken from an Error state with a request in flight
C12_Witness ==
  /\ last.op = "analyzing"
  /\ last.id = 3
  /\ handlers[2].pc = "json"
  /\ console = <<"TypeError: Failed to fetch">>
  /\ AnalyzingShown

(***************************************************************************)
(* C13.  The cause is logged exactly on the unexpected-error path: the     *)
(* step that ends a submission with 'Unexpected error while analyzing the  *)
(* image.' adds one entry to the console, and the steps that end a         *)
(* missing-file submission, a remote rejection (non-2xx status with a JSON *)
(* body) or a success add none.  Fails: a non-2xx response with the body   *)
(* null ends in the catch and is logged.                                   *)
(***************************************************************************)
C13_LoggedExactlyOnUnexpected ==
  [][(last' # last) =>
       LET added == Len(console') - Len(console)
           ends == last'.op \in Completions
       IN /\ (ends /\ statusEl'.textContent = UnexpectedMessage) => added = 1
          /\ last'.op = "missing-file" => added = 0
          /\ (ends /\ last'.body.parses /\ ~Is2xx(last'.status)) => added = 0
          /\ (ends /\ last'.body.parses /\ Is2xx(last'.status)) => added = 0
          /\ last'.op \in {"analyzing", "response"} => added = 0]_vars

(***************************************************************************)
(* C14.  The three error paths leave the visibility of the result          *)
(* container and the result text unchanged; the result is hidden only by   *)
(* the Analyzing step of a submission with a file, and shown or rewritten  *)
(* only by a success.                                                      *)
(***************************************************************************)
C14_ErrorPathsFrame ==
  [][/\ (last' # last /\ last'.op \in {"missing-file", "rejected", "caught"})
          => (resultSection' = resultSection /\ resultPre' = resultPre)
     /\ (~resultSection.hidden /\ resultSection'.hidden)
          => (last' # last /\ last'.op = "analyzing"
              /\ events' = Append(events, 1))
     /\ ((resultSection.hidden /\ ~resultSection'.hidden)
           \/ resultPre' # resultPre)
          => (last' # last /\ last'.op = "complete")]_vars

\* a missing-file error written while an earlier result is still shown
C14_Witness ==
  /\ last.op = "missing-file"
  /\ ~resultSection.hidden
  /\ resultPre.textContent = PrettyText(DocRegion)
  /\ statusEl = ErrorStatus(MissingFileMessage)

(***************************************************************************)
(* C15.  Whenever the result surface is visible its text is the            *)
(* pretty-printed body of the most recently processed success response,    *)
(* and the step that makes it visible is the rendering of a 2xx response   *)
(* that writes that text.                                                  *)
(***************************************************************************)
C15_VisibleTextIsLatestSuccess ==
  /\ [](~resultSection.hidden =>
          /\ last.rendered \in Documents
          /\ resultPre.textContent = PrettyText(last.rendered))
  /\ [][(resultSection.hidden /\ ~resultSection'.hidden) =>
          /\ last'.op = "complete"
          /\ Is2xx(last'.status)
          /\ last'.rendered = last'.body
          /\ resultPre'.textContent = PrettyText(last'.body)]_vars

\* two overlapping successes: the text shown is that of the one processed
\* last, which was triggered first
C15_Witness ==
  /\ ~resultSection.hidden
  /\ last.op = "complete"
  /\ last.id = 1
  /\ handlers[2].pc = "done"
  /\ last.body = DocRegion
  /\ resultPre.textContent = PrettyText(DocRegion)

(***************************************************************************)
(* C16.  The error flag of the status element is set if and only if the    *)
(* status was last written by one of the three error paths; after the      *)
(* Analyzing step or a success wrote it, the status is that step's text    *)
(* without the flag.                                                       *)
(***************************************************************************)
C16_FlagMatchesLastWriter ==
  /\ (statusEl.className = "status error")
       <=> (last.wrote \in {"missing-file", "rejected", "caught"})
  /\ last.wrote = "analyzing" => statusEl = PlainStatus(AnalyzingMessage)
  /\ last.wrote = "complete" => statusEl = PlainStatus(CompleteMessage)
  /\ last.wrote = "load" => statusEl = PlainStatus("")

\* the Analyzing step cleared the flag a transport failure had set
C16_Witness ==
  /\ last.wrote = "analyzing"
  /\ last.id = 2
  /\ console = <<"TypeError: Failed to fetch">>
  /\ handlers[1].pc = "done"
  /\ statusEl = PlainStatus(AnalyzingMessage)

====
